---- MODULE Spec2Model ----
(***************************************************************************)
(* Model of MTAirCompressorCsc (aircompressor_csc.py): the lifecycle hooks *)
(* begin_start / end_enable / end_disable, the do_reset command and the    *)
(* telemetry_loop poll task with its five update_* read operations.        *)
(*                                                                         *)
(* The poll task is an asyncio task: it runs without interruption from one *)
(* await to the next.  The register reads are synchronous calls, so a step *)
(* of the model is the code between two awaits (an event set_write or the  *)
(* asyncio.sleep(1) at the end of a cycle).  simulation_mode is 0.         *)
(*                                                                         *)
(* The lifecycle commands (start, enable, disable, standby) and self.fail  *)
(* belong to the salobj base class: a command runs its hook in the state   *)
(* the base class accepts it in, a hook that raises rejects the state      *)
(* transition, and self.fail is a call that returns.  The constructor's    *)
(* default initial_state is DISABLED; the unit test starts from STANDBY.   *)
(***************************************************************************)
EXTENDS Integers, Sequences, FiniteSets, TLC

\* ---- bounds of the model ------------------------------------------------
MaxStarts == 2      \* begin_start calls (poll tasks created) explored
MaxCycles == 2      \* poll cycles explored, over all tasks

\* ---- register map -------------------------------------------------------
REG_WATER_LEVEL == 30     \* 0x1E
REG_ANALOG == 34          \* 0x22
REG_STATUS == 48          \* 0x30
REG_TIMER == 57           \* 0x39
REG_ERRORS == 99          \* 0x63
REG_INFO == 199           \* 0xC7
REG_POWER == 299          \* 0x12B
REG_RESET == 301          \* 0x12D
POWER_ON == 65281         \* 0xFF01
POWER_OFF == 65280        \* 0xFF00
RESET_VALUE == 65281      \* 0xFF01
ERRORS_REPORTED_ADDRESS == 48   \* address passed to ModbusError in update_errorsWarnings
TIMER_PERIOD == 60

VARIABLES
    summary_state,   \* lifecycle state of the CSC
    client,          \* self.client: "None" or "ModbusClient"
    first_run,       \* self.first_run
    telemetry_task,  \* self.telemetry_task: 0 is the done future of __init__
    nstarts,         \* number of tasks created so far
    pc,              \* per task: the await the task is suspended in
    timerUpdate,     \* per task: local variable timerUpdate
    cycles,          \* poll cycles begun so far, over all tasks
    infoReads,       \* per task: identity reads issued
    failedSince,     \* per task: a cycle (of any task) failed since it was created
    last,            \* the handler or task step executed last, with its I/O
    inflight         \* transport requests sent and not yet answered

vars == <<summary_state, client, first_run, telemetry_task, nstarts,
          pc, timerUpdate, cycles, infoReads, failedSince, last, inflight>>

Tasks == 1..MaxStarts
DoneFuture == 0

\* results of a transport call: a response, an error response (isError),
\* or an exception raised by the call itself
ReadOutcomes == {"ok", "error", "raise"}
WriteOutcomes == {"ack", "error", "raise"}

NoError == [kind |-> "none", what |-> "", address |-> 0]

\* ModbusError(what, modbus_exception, address)
ModbusError(what, address) ==
    [kind |-> "ModbusError", what |-> what, address |-> address]

\* any exception that is not a ModbusError
OtherError(what) == [kind |-> "Exception", what |-> what, address |-> 0]

NoReport == <<>>

\* op: the handler or step; task: the poll task that ran it (0: a command);
\* reads, writes: the registers read and the <<register, value>> written;
\* results: what each of those transport calls returned; pubs: the records
\* published; err: the exception the step ended in; report: the self.fail
\* call made; logged: self.log.error / self.log.exception was called
Event(op, task, reads, writes, results, pubs, err, report, logged) ==
    [op |-> op, task |-> task, reads |-> reads, writes |-> writes,
     results |-> results, pubs |-> pubs, err |-> err, report |-> report,
     logged |-> logged]

\* MTAirCompressorCsc.__init__
Init ==
    /\ summary_state \in {"STANDBY", "DISABLED"}
    /\ client = "None"
    /\ first_run = TRUE
    /\ telemetry_task = DoneFuture
    /\ nstarts = 0
    /\ pc = [t \in Tasks |-> "none"]
    /\ timerUpdate = [t \in Tasks |-> 0]
    /\ cycles = 0
    /\ infoReads = [t \in Tasks |-> 0]
    /\ failedSince = [t \in Tasks |-> FALSE]
    /\ last = Event("__init__", 0, <<>>, <<>>, <<>>, {}, NoError, NoReport, FALSE)
    /\ inflight = {}

\* ---- lifecycle hooks and commands ---------------------------------------

\* start command: STANDBY -> DISABLED through begin_start.  A connect() that
\* returns False is logged; the poll task is created either way, and
\* self.first_run is not assigned
begin_start(connectOk) ==
    /\ summary_state = "STANDBY"
    /\ nstarts < MaxStarts
    /\ client' = "ModbusClient"
    /\ nstarts' = nstarts + 1
    /\ telemetry_task' = nstarts + 1
    /\ pc' = [pc EXCEPT ![nstarts + 1] = "start"]
    /\ summary_state' = "DISABLED"
    /\ last' = Event("begin_start", 0, <<>>, <<>>, <<>>, {}, NoError, NoReport,
                     ~connectOk)
    /\ UNCHANGED <<first_run, timerUpdate, cycles, infoReads, failedSince>>

\* error raised by a hook that writes one register
WriteError(what, address, w) ==
    CASE w = "ack" -> NoError
      [] w = "error" -> ModbusError(what, address)
      [] OTHER -> OtherError("write_register raised")

\* enable command: DISABLED -> ENABLED, then end_enable; a hook that raises
\* makes the command fail and the state transition is rejected
end_enable(w) ==
    /\ summary_state = "DISABLED"
    /\ IF client = "None"
       THEN /\ last' = Event("end_enable", 0, <<>>, <<>>, <<>>, {},
                             OtherError("client is None"), NoReport, FALSE)
            /\ UNCHANGED summary_state
       ELSE /\ last' = Event("end_enable", 0, <<>>,
                             << <<REG_POWER, POWER_ON>> >>, <<w>>, {},
                             WriteError("Cannot power on compressor", REG_POWER, w),
                             NoReport, FALSE)
            /\ summary_state' = IF w = "ack" THEN "ENABLED" ELSE summary_state
    /\ UNCHANGED <<client, first_run, telemetry_task, nstarts, pc,
                   timerUpdate, cycles, infoReads, failedSince>>

\* Cancel with a fault: the task is not cancelled
Cancel_Forgotten(p, t) == p

\* self.telemetry_task.cancel(): a task suspended in an await (or not yet
\* started) gets CancelledError there and runs no further code; cancelling
\* the done future of __init__ does nothing
Cancel(p, t) ==
    IF t \in Tasks /\ p[t] # "none" THEN [p EXCEPT ![t] = "cancelled"] ELSE p

\* disable command: ENABLED -> DISABLED, then end_disable
end_disable(w) ==
    /\ summary_state = "ENABLED"
    /\ IF client = "None"
       THEN /\ last' = Event("end_disable", 0, <<>>, <<>>, <<>>, {},
                             OtherError("client is None"), NoReport, FALSE)
            /\ UNCHANGED <<summary_state, pc>>
       ELSE /\ last' = Event("end_disable", 0, <<>>,
                             << <<REG_POWER, POWER_OFF>> >>, <<w>>, {},
                             WriteError("Cannot power off compressor", REG_POWER, w),
                             NoReport, FALSE)
            /\ summary_state' = IF w = "ack" THEN "DISABLED" ELSE summary_state
            /\ pc' = IF w = "ack" THEN Cancel(pc, telemetry_task) ELSE pc
    /\ UNCHANGED <<client, first_run, telemetry_task, nstarts,
                   timerUpdate, cycles, infoReads, failedSince>>

\* standby command: DISABLED -> STANDBY; the CSC overrides no hook for it
do_standby ==
    /\ summary_state = "DISABLED"
    /\ summary_state' = "STANDBY"
    /\ last' = Event("do_standby", 0, <<>>, <<>>, <<>>, {}, NoError, NoReport, FALSE)
    /\ UNCHANGED <<client, first_run, telemetry_task, nstarts, pc,
                   timerUpdate, cycles, infoReads, failedSince>>

\* ResetWrites with a fault: no "if self.client is None: return"
ResetWrites_Unguarded(cl) == << <<REG_RESET, RESET_VALUE>> >>

\* register writes issued by do_reset
ResetWrites(cl) ==
    IF cl = "None" THEN <<>> ELSE << <<REG_RESET, RESET_VALUE>> >>

\* self.fail("Cannot reset compressor") of do_reset
ResetReport(w) ==
    IF w = "error" THEN <<"fail", "Cannot reset compressor">> ELSE NoReport

\* reset command, accepted in every state
do_reset(w) ==
    /\ IF client = "None"
       THEN last' = Event("do_reset", 0, <<>>, ResetWrites(client), <<>>, {},
                          NoError, NoReport, FALSE)
       ELSE last' = Event("do_reset", 0, <<>>, ResetWrites(client), <<w>>, {},
                          WriteError("Cannot reset compressor", REG_RESET, w),
                          ResetReport(w), FALSE)
    /\ UNCHANGED <<summary_state, client, first_run, telemetry_task,
                   nstarts, pc, timerUpdate, cycles, infoReads, failedSince>>

\* ---- the poll task -------------------------------------------------------

\* error raised by an update_* operation whose read did not succeed
ReadError(what, address, r) ==
    CASE r = "ok" -> NoError
      [] r = "error" -> ModbusError(what, address)
      [] OTHER -> OtherError("read_holding_registers raised")

\* AfterExcept with a fault: an unexpected exception ends the loop
AfterExcept_Reraise(err) == IF err.kind = "Exception" THEN "dead" ELSE "sleep"

\* where telemetry_loop continues after an except clause: the sleep
AfterExcept(err) == "sleep"

\* except ModbusError: self.fail(None, str(me)); except Exception: logged
LoopReport(err) ==
    IF err.kind = "ModbusError" THEN <<"fail", "None", err.what>> ELSE NoReport

LoopLogged(err) == err.kind = "Exception"

\* a step of task t that ends in one of the except clauses of telemetry_loop
Except(t, op, reads, results, pubs, err) ==
    /\ first_run' = TRUE
    /\ pc' = [pc EXCEPT ![t] = AfterExcept(err)]
    /\ failedSince' = [u \in Tasks |-> failedSince[u] \/ pc[u] # "none"]
    /\ last' = Event(op, t, reads, <<>>, results, pubs, err, LoopReport(err),
                     LoopLogged(err))

\* a step of task t that ends suspended in the await named next
Await(t, op, reads, results, pubs, next) ==
    /\ pc' = [pc EXCEPT ![t] = next]
    /\ last' = Event(op, t, reads, <<>>, results, pubs, NoError, NoReport, FALSE)

\* update_status at the start of a cycle, while fewer than budget cycles
\* have begun
begin_cycle(t, r, budget) ==
    /\ pc[t] \in {"start", "sleep"}
    /\ cycles < budget
    /\ cycles' = cycles + 1
    /\ IF r = "ok"
       THEN /\ Await(t, "update_status", <<REG_STATUS>>, <<r>>, {"status"},
                     "status_write")
            /\ UNCHANGED <<first_run, failedSince>>
       ELSE Except(t, "update_status", <<REG_STATUS>>, <<r>>, {},
                   ReadError("Cannot read status", REG_STATUS, r))
    /\ UNCHANGED <<summary_state, client, telemetry_task, nstarts,
                   timerUpdate, infoReads>>

\* update_status: start of a cycle
update_status(t, r) == begin_cycle(t, r, MaxCycles)

\* update_errorsWarnings up to the await of evt_errors.set_write
update_errorsWarnings(t, r) ==
    /\ pc[t] = "status_write"
    /\ IF r = "ok"
       THEN /\ Await(t, "update_errorsWarnings", <<REG_ERRORS>>, <<r>>, {"errors"},
                     "errors_write")
            /\ UNCHANGED <<first_run, failedSince>>
       ELSE Except(t, "update_errorsWarnings", <<REG_ERRORS>>, <<r>>, {},
                   ReadError("Cannot read errors and warnings",
                             ERRORS_REPORTED_ADDRESS, r))
    /\ UNCHANGED <<summary_state, client, telemetry_task, nstarts,
                   timerUpdate, cycles, infoReads>>

\* update_errorsWarnings from evt_errors.set_write to evt_warnings.set_write
write_warnings(t) ==
    /\ pc[t] = "errors_write"
    /\ Await(t, "update_errorsWarnings", <<>>, <<>>, {"warnings"}, "warnings_write")
    /\ UNCHANGED <<summary_state, client, first_run, telemetry_task,
                   nstarts, timerUpdate, cycles, infoReads, failedSince>>

\* registers read by update_analog_data: the second read follows a good first
AnalogReads(r1) ==
    IF r1 = "ok" THEN <<REG_WATER_LEVEL, REG_ANALOG>> ELSE <<REG_WATER_LEVEL>>

AnalogResults(r1, r2) == IF r1 = "ok" THEN <<r1, r2>> ELSE <<r1>>

\* AnalogPubs with a fault: published before the second read is checked
AnalogPubs_Early(r1, r2) == IF r1 = "ok" THEN {"analogData"} ELSE {}

\* records published by update_analog_data
AnalogPubs(r1, r2) == IF r1 = "ok" /\ r2 = "ok" THEN {"analogData"} ELSE {}

AnalogError(r1, r2) ==
    IF r1 # "ok" THEN ReadError("Cannot read telemetry", REG_WATER_LEVEL, r1)
    ELSE ReadError("Cannot read telemetry", REG_ANALOG, r2)

update_analog_data(t, r1, r2) ==
    /\ pc[t] = "warnings_write"
    /\ IF AnalogError(r1, r2) = NoError
       THEN /\ Await(t, "update_analog_data", AnalogReads(r1), AnalogResults(r1, r2),
                     AnalogPubs(r1, r2),
                     "analog_write")
            /\ UNCHANGED <<first_run, failedSince>>
       ELSE Except(t, "update_analog_data", AnalogReads(r1), AnalogResults(r1, r2),
                     AnalogPubs(r1, r2),
                   AnalogError(r1, r2))
    /\ UNCHANGED <<summary_state, client, telemetry_task, nstarts,
                   timerUpdate, cycles, infoReads>>

\* if self.first_run: await self.update_compressor_info()
update_compressor_info(t, r) ==
    /\ pc[t] = "analog_write"
    /\ first_run
    /\ infoReads' = [infoReads EXCEPT ![t] = @ + 1]
    /\ IF r = "ok"
       THEN /\ Await(t, "update_compressor_info", <<REG_INFO>>, <<r>>,
                     {"compressorInfo"}, "info_write")
            /\ UNCHANGED <<first_run, failedSince>>
       ELSE Except(t, "update_compressor_info", <<REG_INFO>>, <<r>>, {},
                   ReadError("Cannot read compressor version", REG_INFO, r))
    /\ UNCHANGED <<summary_state, client, telemetry_task, nstarts,
                   timerUpdate, cycles>>

\* AtTimerCheck with a fault: the timer step placed after update_status
AtTimerCheck_Early(t) ==
    \/ pc[t] = "status_write"
    \/ pc[t] = "analog_write" /\ ~first_run
    \/ pc[t] = "info_write"

\* task t is at "if timerUpdate <= 0", either past a false "if self.first_run"
\* or resumed from update_compressor_info
AtTimerCheck(t) ==
    \/ pc[t] = "analog_write" /\ ~first_run
    \/ pc[t] = "info_write"

\* TimerDue with a fault: the timers are read one cycle early
TimerDue_Early(tu) == tu <= 1

\* TimerDue with a fault: "<" for "<="
TimerDue_Negative(tu) == tu < 0

\* if timerUpdate <= 0
TimerDue(tu) == tu <= 0

\* (self.first_run = False after update_compressor_info, then)
\* timerUpdate <= 0: update_timer up to the await of evt_timerInfo.set_write
update_timer(t, r) ==
    /\ AtTimerCheck(t)
    /\ TimerDue(timerUpdate[t])
    /\ IF r = "ok"
       THEN /\ Await(t, "update_timer", <<REG_TIMER>>, <<r>>, {"timerInfo"},
                     "timer_write")
            /\ first_run' = IF pc[t] = "info_write" THEN FALSE ELSE first_run
            /\ UNCHANGED failedSince
       ELSE Except(t, "update_timer", <<REG_TIMER>>, <<r>>, {},
                   ReadError("Cannot read timers", REG_TIMER, r))
    /\ UNCHANGED <<summary_state, client, telemetry_task, nstarts,
                   timerUpdate, cycles, infoReads>>

\* (self.first_run = False after update_compressor_info, then)
\* timerUpdate > 0: timerUpdate -= 1, then the sleep
timer_countdown(t) ==
    /\ AtTimerCheck(t)
    /\ ~TimerDue(timerUpdate[t])
    /\ timerUpdate' = [timerUpdate EXCEPT ![t] = @ - 1]
    /\ first_run' = IF pc[t] = "info_write" THEN FALSE ELSE first_run
    /\ Await(t, "timer_countdown", <<>>, <<>>, {}, "sleep")
    /\ UNCHANGED <<summary_state, client, telemetry_task, nstarts,
                   cycles, infoReads, failedSince>>

\* resumed from update_timer: timerUpdate = 60, then the sleep
timer_reset(t) ==
    /\ pc[t] = "timer_write"
    /\ timerUpdate' = [timerUpdate EXCEPT ![t] = TIMER_PERIOD]
    /\ Await(t, "timer_reset", <<>>, <<>>, {}, "sleep")
    /\ UNCHANGED <<summary_state, client, first_run, telemetry_task,
                   nstarts, cycles, infoReads, failedSince>>

\* a step of the CSC: a lifecycle command, a reset or a step of a poll task.
\* Every transport call is made and answered within the step
Next ==
    \/ \E c \in BOOLEAN : begin_start(c) /\ UNCHANGED inflight
    \/ \E w \in WriteOutcomes : end_enable(w) /\ UNCHANGED inflight
    \/ \E w \in WriteOutcomes : end_disable(w) /\ UNCHANGED inflight
    \/ do_standby /\ UNCHANGED inflight
    \/ \E w \in WriteOutcomes : do_reset(w) /\ UNCHANGED inflight
    \/ \E t \in Tasks, r \in ReadOutcomes :
          update_status(t, r) /\ UNCHANGED inflight
    \/ \E t \in Tasks, r \in ReadOutcomes :
          update_errorsWarnings(t, r) /\ UNCHANGED inflight
    \/ \E t \in Tasks : write_warnings(t) /\ UNCHANGED inflight
    \/ \E t \in Tasks, r1 \in ReadOutcomes, r2 \in ReadOutcomes :
          update_analog_data(t, r1, r2) /\ UNCHANGED inflight
    \/ \E t \in Tasks, r \in ReadOutcomes :
          update_compressor_info(t, r) /\ UNCHANGED inflight
    \/ \E t \in Tasks, r \in ReadOutcomes :
          update_timer(t, r) /\ UNCHANGED inflight
    \/ \E t \in Tasks : timer_countdown(t) /\ UNCHANGED inflight
    \/ \E t \in Tasks : timer_reset(t) /\ UNCHANGED inflight

Spec == Init /\ [][Next]_vars

\* ---- properties -----------------------------------------------------------

LiveTasks == {t \in Tasks : pc[t] \notin {"none", "cancelled"}}

LoopAwaits == {"start", "status_write", "errors_write", "warnings_write",
               "analog_write", "info_write", "timer_write", "sleep"}

FailedRead(e) == e.task \in Tasks /\ \E i \in DOMAIN e.results : e.results[i] # "ok"

\* C1: a poll step that ends in a failure (ModbusError or any other exception,
\* in any read operation) leaves the task in the sleep of the loop with
\* first_run set; a task leaves the sleep only to start the next cycle with
\* update_status or by being cancelled by end_disable; a task once created is
\* always at an await of the loop unless it was cancelled, and only end_disable
\* cancels it.
C1_LoopSurvivesReadFailures ==
    [][\A t \in Tasks :
          /\ (last'.task = t /\ last'.err # NoError) =>
                (pc'[t] = "sleep" /\ first_run')
          /\ (pc[t] = "sleep" /\ pc'[t] # "sleep") =>
                \/ pc'[t] = "cancelled"
                \/ last'.task = t /\ last'.op = "update_status"
          /\ pc[t] # "none" => pc'[t] \in LoopAwaits \cup {"cancelled"}
          /\ (pc[t] # "cancelled" /\ pc'[t] = "cancelled") =>
                last'.op = "end_disable"]_vars

\* C1 witness: the only task had a failed cycle and has begun another cycle
C1_Witness ==
    /\ nstarts = 1
    /\ failedSince[1]
    /\ pc[1] = "status_write"
    /\ cycles = 2

\* C2: at most one poll task exists at any time.
C2_AtMostOnePollTask == Cardinality(LiveTasks) <= 1

\* C3: a begin_start whose connect() returned False logs the failure and
\* creates no poll task.
C3_FailedConnectSpawnsNoLoop ==
    [][(last'.op = "begin_start" /\ last'.logged) =>
          (nstarts' = nstarts /\ telemetry_task' = telemetry_task)]_vars

\* task t is a session that ran alone: every earlier task was cancelled (which
\* only end_disable does, to the task then held in telemetry_task, so before
\* t was created) and no later task exists
RanAlone(t) == nstarts = t /\ \A u \in 1..(t - 1) : pc[u] = "cancelled"

\* C4: a task (session) that ran alone and has completed a cycle, with no
\* failed cycle since the task was created, has read identity exactly once.
C4_IdentityReadOncePerSession ==
    \A t \in Tasks :
        (RanAlone(t) /\ pc[t] = "sleep" /\ ~failedSince[t]) => infoReads[t] = 1

\* C5: every session start leaves first_run true.
C5_StartBeginsWithFirstRun == last.op = "begin_start" => first_run

\* C6: after an end_disable whose write was acknowledged the task held in
\* telemetry_task is cancelled, and a cancelled task stays cancelled and runs
\* no further step (no read, no publication), whatever await it was in.
C6_PowerOffCancelsPollTask ==
    [][/\ (last'.op = "end_disable" /\ last'.err = NoError) =>
             pc'[telemetry_task'] = "cancelled"
       /\ \A t \in Tasks :
             pc[t] = "cancelled" => (pc'[t] = "cancelled" /\ last'.task # t)]_vars

\* C6 witness: the task completed one cycle (timerUpdate reset, no new cycle
\* begun), so it was in the sleep when the acknowledged end_disable cancelled it
C6_Witness ==
    /\ last.op = "end_disable"
    /\ last.err = NoError
    /\ nstarts = 1
    /\ cycles = 1
    /\ timerUpdate[1] = 60
    /\ pc[1] = "cancelled"

\* C7: end_enable issues exactly one write of 0xFF01 to 0x12B and end_disable
\* exactly one write of 0xFF00 to 0x12B; an acknowledged write makes the
\* command succeed; a write that returns an error makes it fail with a
\* ModbusError and leaves pc and first_run as they were.
C7_PowerCommandsWriteOnce ==
    [][/\ last'.op = "end_enable" =>
             /\ last'.writes = << <<299, 65281>> >>
             /\ last'.results = <<"ack">> =>
                   (last'.err = NoError /\ summary_state' = "ENABLED")
       /\ last'.op = "end_disable" =>
             /\ last'.writes = << <<299, 65280>> >>
             /\ last'.results = <<"ack">> =>
                   (last'.err = NoError /\ summary_state' = "DISABLED")
       /\ (last'.op \in {"end_enable", "end_disable"} /\ last'.results = <<"error">>) =>
             /\ last'.err.kind = "ModbusError"
             /\ last'.err.address = 299
             /\ summary_state' = summary_state
             /\ pc' = pc
             /\ first_run' = first_run]_vars

\* C8: do_reset without a client writes nothing, reports nothing and succeeds;
\* with a client it writes 0xFF01 to 0x12D, and a write that returns an error
\* is both reported with self.fail and raised as a ModbusError.
C8_ResetFaults ==
    last.op = "do_reset" =>
        IF client = "None"
        THEN last.writes = <<>> /\ last.report = NoReport /\ last.err = NoError
        ELSE /\ last.writes = << <<301, 65281>> >>
             /\ last.results = <<"ack">> => (last.err = NoError /\ last.report = NoReport)
             /\ last.results = <<"error">> =>
                   /\ last.report = <<"fail", "Cannot reset compressor">>
                   /\ last.err.kind = "ModbusError"
                   /\ last.err.address = 301

\* C8 witness: a reset with a client whose write returned an error
C8_Witness ==
    /\ last.op = "do_reset"
    /\ client # "None"
    /\ last.results = <<"error">>
    /\ last.report # NoReport

\* C9: the report made for a ModbusError caught in a poll cycle is not the
\* report a failed do_reset makes.
C9_LoopReportIsRecoverableOnly ==
    (last.task \in Tasks /\ last.err.kind = "ModbusError") =>
        /\ last.report # NoReport
        /\ last.report[1] # ResetReport("error")[1]

\* C10: a poll step in which a register read failed publishes no record and
\* ends the cycle (so update_errorsWarnings publishes neither errors nor
\* warnings, and update_analog_data nothing when its second read fails).
C10_FailedReadPublishesNothing ==
    FailedRead(last) => (last.pubs = {} /\ pc[last.task] = "sleep")

\* C10 witness: update_analog_data with a good first and a failed second read
C10_Witness ==
    /\ last.op = "update_analog_data"
    /\ last.reads = <<30, 34>>
    /\ last.results = <<"ok", "error">>
    /\ last.pubs = {}

\* the register the failing transport call of step e was aimed at
TargetRegister(e) ==
    IF e.writes # <<>> THEN e.writes[Len(e.writes)][1] ELSE e.reads[Len(e.reads)]

\* C11: the ModbusError raised by a failed read or write carries the address
\* of the register group the failing call targeted (0x30 status, 0x63
\* errors/warnings, 0x1E or 0x22 analog, 0x39 timers, 0xC7 identity, 0x12B
\* power, 0x12D reset).
C11_ErrorCarriesTargetAddress ==
    last.err.kind = "ModbusError" =>
        /\ last.err.address = TargetRegister(last)
        /\ last.err.address \in {48, 99, 30, 34, 57, 199, 299, 301}

\* ---- the transport calls, request by request ------------------------------
\* The same steps with the request of a read or write and its response taken
\* apart.  The client is the synchronous ModbusTcpClient and its calls are
\* not awaited: the caller keeps the event loop from the request to the
\* response, so no other coroutine runs in between.  (The second read of
\* update_analog_data is made and answered within the step that receives the
\* first.)

\* SynchronousClient with a fault: the asyncio client, its calls awaited
SynchronousClient_Asyncio == FALSE

\* from pymodbus.client.sync import ModbusTcpClient
SynchronousClient == TRUE

\* no coroutine is inside a transport call that blocks the event loop
LoopIdle == SynchronousClient => inflight = {}

Request(who, register) == [who |-> who, register |-> register]

\* the name under which task t makes its requests
TaskName(t) == ToString(t)

\* the register task t reads first when it is resumed (0: it reads nothing)
NextRead(t) ==
    CASE pc[t] \in {"start", "sleep"} /\ cycles < MaxCycles -> REG_STATUS
      [] pc[t] = "status_write" -> REG_ERRORS
      [] pc[t] = "warnings_write" -> REG_WATER_LEVEL
      [] pc[t] = "analog_write" /\ first_run -> REG_INFO
      [] AtTimerCheck(t) /\ TimerDue(timerUpdate[t]) -> REG_TIMER
      [] OTHER -> 0

\* task t calls self.client.read_holding_registers
send_read(t) ==
    /\ LoopIdle
    /\ NextRead(t) # 0
    /\ \A q \in inflight : q.who # TaskName(t)
    /\ inflight' = inflight \cup {Request(TaskName(t), NextRead(t))}
    /\ UNCHANGED <<summary_state, client, first_run, telemetry_task, nstarts,
                   pc, timerUpdate, cycles, infoReads, failedSince, last>>

\* the response to the request of who for register arrives
Answered(who, register) ==
    /\ Request(who, register) \in inflight
    /\ inflight' = inflight \ {Request(who, register)}

\* the register a command hook writes
CommandRegister(cmd) == IF cmd = "do_reset" THEN REG_RESET ELSE REG_POWER

\* the lifecycle state a command is accepted in
CommandAccepted(cmd) ==
    CASE cmd = "end_enable" -> summary_state = "DISABLED"
      [] cmd = "end_disable" -> summary_state = "ENABLED"
      [] OTHER -> TRUE

\* a command hook calls self.client.write_register
send_write(cmd) ==
    /\ LoopIdle
    /\ client # "None"
    /\ CommandAccepted(cmd)
    /\ \A q \in inflight : q.who # cmd
    /\ inflight' = inflight \cup {Request(cmd, CommandRegister(cmd))}
    /\ UNCHANGED <<summary_state, client, first_run, telemetry_task, nstarts,
                   pc, timerUpdate, cycles, infoReads, failedSince, last>>

InitTransport == Init /\ summary_state = "STANDBY"

NextTransport ==
    \/ \E c \in BOOLEAN : begin_start(c) /\ LoopIdle /\ UNCHANGED inflight
    \/ \E cmd \in {"end_enable", "end_disable", "do_reset"} : send_write(cmd)
    \/ \E w \in WriteOutcomes : end_enable(w) /\ Answered("end_enable", REG_POWER)
    \/ \E w \in WriteOutcomes : end_disable(w) /\ Answered("end_disable", REG_POWER)
    \/ \E w \in WriteOutcomes : do_reset(w) /\ Answered("do_reset", REG_RESET)
    \/ do_reset("ack") /\ client = "None" /\ LoopIdle /\ UNCHANGED inflight
    \/ \E t \in Tasks : send_read(t)
    \/ \E t \in Tasks, r \in ReadOutcomes :
          update_status(t, r) /\ Answered(TaskName(t), REG_STATUS)
    \/ \E t \in Tasks, r \in ReadOutcomes :
          update_errorsWarnings(t, r) /\ Answered(TaskName(t), REG_ERRORS)
    \/ \E t \in Tasks : write_warnings(t) /\ LoopIdle /\ UNCHANGED inflight
    \/ \E t \in Tasks, r1 \in ReadOutcomes, r2 \in ReadOutcomes :
          update_analog_data(t, r1, r2) /\ Answered(TaskName(t), REG_WATER_LEVEL)
    \/ \E t \in Tasks, r \in ReadOutcomes :
          update_compressor_info(t, r) /\ Answered(TaskName(t), REG_INFO)
    \/ \E t \in Tasks, r \in ReadOutcomes :
          update_timer(t, r) /\ Answered(TaskName(t), REG_TIMER)
    \/ \E t \in Tasks : timer_countdown(t) /\ LoopIdle /\ UNCHANGED inflight
    \/ \E t \in Tasks : timer_reset(t) /\ LoopIdle /\ UNCHANGED inflight

SpecTransport == InitTransport /\ [][NextTransport]_vars

\* C12: at most one transport request (read or write) is in flight at any
\* time: no request starts while another is still unanswered.
C12_TransportCallsSerialized == Cardinality(inflight) <= 1

\* C12 witness: the write of end_enable is in flight between the status read
\* and the errors/warnings read of a poll cycle
C12_Witness ==
    /\ inflight = {Request("end_enable", 299)}
    /\ pc[1] = "status_write"

\* ---- one session over many poll cycles -------------------------------------
MaxTimerCycles == 62    \* poll cycles explored in one session
MaxIdentityReads == 2   \* identity reads of a session up to which reads may fail

InitTimer == Init /\ summary_state = "STANDBY"

\* the results a read of task t may have: failures are explored until the
\* task has read identity MaxIdentityReads times
Outcomes(t) == IF infoReads[t] < MaxIdentityReads THEN ReadOutcomes ELSE {"ok"}

\* one start and the steps of its poll task
NextTimer ==
    \/ \E c \in BOOLEAN : begin_start(c) /\ UNCHANGED inflight
    \/ \E t \in Tasks : \E r \in Outcomes(t) :
          begin_cycle(t, r, MaxTimerCycles) /\ UNCHANGED inflight
    \/ \E t \in Tasks : \E r \in Outcomes(t) :
          update_errorsWarnings(t, r) /\ UNCHANGED inflight
    \/ \E t \in Tasks : write_warnings(t) /\ UNCHANGED inflight
    \/ \E t \in Tasks : \E r1 \in Outcomes(t), r2 \in Outcomes(t) :
          update_analog_data(t, r1, r2) /\ UNCHANGED inflight
    \/ \E t \in Tasks : \E r \in Outcomes(t) :
          update_compressor_info(t, r) /\ UNCHANGED inflight
    \/ \E t \in Tasks : \E r \in Outcomes(t) :
          update_timer(t, r) /\ UNCHANGED inflight
    \/ \E t \in Tasks : timer_countdown(t) /\ UNCHANGED inflight
    \/ \E t \in Tasks : timer_reset(t) /\ UNCHANGED inflight

SpecTimer == InitTimer /\ [][NextTimer]_vars

\* C13: in a session without a failed read the countdown starts at 0; the
\* timers are read in the first cycle and then in every 61st cycle after a
\* timer read (cycles 1, 62, ...), each read setting the countdown to 60;
\* every other cycle reads no timers and decrements the countdown by one.
C13_TimerCadence ==
    (nstarts = 1 /\ ~failedSince[1]) =>
        /\ cycles = 0 => timerUpdate[1] = 0
        /\ last.op = "update_timer" => (cycles - 1) % 61 = 0
        /\ last.op = "timer_reset" =>
              ((cycles - 1) % 61 = 0 /\ timerUpdate[1] = 60)
        /\ last.op = "timer_countdown" =>
              /\ (cycles - 1) % 61 # 0
              /\ timerUpdate[1] = 60 - ((cycles - 1) % 61)
        /\ pc[1] = "sleep" => last.op \in {"timer_reset", "timer_countdown"}

\* C13 witness: the timer read of cycle 62, the 61st cycle after the first read
C13_Witness ==
    /\ nstarts = 1
    /\ ~failedSince[1]
    /\ cycles = 62
    /\ last.op = "update_timer"
    /\ last.err = NoError

\* C14: in the steps of a session the reads come in the order status (0x30),
\* errors/warnings (0x63), analog (0x1E, 0x22); identity (0xC7) is read only
\* right after a successful analog read and only with first_run true; the
\* timer step comes only after a successful analog or identity read; a cycle
\* starts with the status read, after the start, a failed step or the end of
\* the cycle before.
C14_ReadOrder ==
    [][/\ last'.op = "update_status" =>
             /\ last'.reads = <<48>>
             /\ \/ last.op \in {"begin_start", "timer_countdown", "timer_reset"}
                \/ last.err # NoError
       /\ (last'.op = "update_errorsWarnings" /\ last'.reads # <<>>) =>
             /\ last'.reads = <<99>>
             /\ last.op = "update_status" /\ last.err = NoError
       /\ (last'.op = "update_errorsWarnings" /\ last'.reads = <<>>) =>
             /\ last.op = "update_errorsWarnings"
             /\ last.reads = <<99>> /\ last.err = NoError
       /\ last'.op = "update_analog_data" =>
             /\ last'.reads \in {<<30>>, <<30, 34>>}
             /\ last.op = "update_errorsWarnings" /\ last.reads = <<>>
       /\ last'.op = "update_compressor_info" =>
             /\ last'.reads = <<199>>
             /\ last.op = "update_analog_data" /\ last.err = NoError
             /\ first_run
       /\ last'.op \in {"update_timer", "timer_countdown"} =>
             /\ last.err = NoError
             /\ \/ last.op = "update_analog_data" /\ ~first_run
                \/ last.op = "update_compressor_info"
       /\ last'.op = "update_timer" => last'.reads = <<57>>
       /\ last'.reads # <<>> =>
             last'.op \in {"update_status", "update_errorsWarnings",
                           "update_analog_data", "update_compressor_info",
                           "update_timer"}]_vars

\* C14 witness: a first cycle that read identity and then the timers
C14_Witness ==
    /\ cycles = 1
    /\ infoReads[1] = 1
    /\ last.op = "update_timer"
    /\ last.err = NoError

\* C18: a poll step that ends in a failure leaves the countdown of its task
\* as it was; a task at the timer step with a countdown of 0 reads the timers
\* (so a failed timer read is attempted again in the next cycle that gets
\* there); the countdown is always within 0..60.
C18_FailedCycleKeepsCountdown ==
    /\ [](\A t \in Tasks : timerUpdate[t] \in 0..60)
    /\ [][\A t \in Tasks :
             /\ (last'.task = t /\ last'.err # NoError) =>
                   timerUpdate'[t] = timerUpdate[t]
             /\ (/\ last'.task = t
                 /\ timerUpdate[t] = 0
                 /\ \/ pc[t] = "info_write"
                    \/ pc[t] = "analog_write" /\ ~first_run) =>
                   (last'.op = "update_timer" /\ last'.reads = <<57>>)]_vars

\* C18 witness: the second cycle gets to the timer step with the countdown
\* still 0 and its timer read fails again
C18_Witness ==
    /\ nstarts = 1
    /\ cycles = 2
    /\ last.op = "update_timer"
    /\ last.err # NoError
    /\ timerUpdate[1] = 0

\* ---------------------------------------------------------------------
\* Data carried by the poll step: the error message, the decoded bits and
\* the analog record, each computed from the values handed to it.

MaxFunctionCode == 6    \* function codes 1..MaxFunctionCode of a response
MaxExceptionCode == 2   \* exception codes 1..MaxExceptionCode of a response
MaxFields == 2          \* longest field list handed to _statusBits
MaxRegister == 2        \* register values 0..MaxRegister of the analog reads

\* a call of a function of the module: its arguments and what it returned
Call(op, args, result) == [op |-> op, args |-> args, result |-> result]

\* pymodbus.pdu.ExceptionResponse as ModbusError reads it
ExceptionResponse(original_code, exception_code) ==
    [original_code |-> original_code,
     function_code |-> original_code + 128,
     exception_code |-> exception_code]

HexDigit(d) ==
    <<"0", "1", "2", "3", "4", "5", "6", "7",
      "8", "9", "a", "b", "c", "d", "e", "f">>[d + 1]

RECURSIVE HexDigits(_)
HexDigits(n) ==
    IF n < 16 THEN <<HexDigit(n)>>
    ELSE Append(HexDigits(n \div 16), HexDigit(n % 16))

RECURSIVE ZeroPad(_, _)
ZeroPad(digits, width) ==
    IF Len(digits) >= width THEN digits ELSE ZeroPad(<<"0">> \o digits, width)

\* f"{address:04x}"
Hex04(address) == ZeroPad(HexDigits(address), 4)

\* ModbusError.__init__ with a fault: a write response (6) takes the branch
\* of a read response (4)
ModbusErrorMessage_ReadOnly(what, modbus_exception, address) ==
    <<what, " ">> \o
    IF modbus_exception.original_code \in {4, 6}
    THEN <<"Cannot address 0x">> \o Hex04(address) \o
         <<": ", ToString(modbus_exception.exception_code)>>
    ELSE <<"Cannot call function ", ToString(modbus_exception.function_code),
           " : ", ToString(modbus_exception.exception_code), ", address 0x">>
         \o Hex04(address)

\* ModbusError.__init__: the message, as the pieces the f-strings join
ModbusErrorMessage(what, modbus_exception, address) ==
    <<what, " ">> \o
    IF modbus_exception.original_code = 4
    THEN <<"Cannot address 0x">> \o Hex04(address) \o
         <<": ", ToString(modbus_exception.exception_code)>>
    ELSE IF modbus_exception.original_code = 6
    THEN <<"Cannot write register address 0x">> \o Hex04(address) \o
         <<": ", ToString(modbus_exception.exception_code)>>
    ELSE <<"Cannot call function ", ToString(modbus_exception.function_code),
           " : ", ToString(modbus_exception.exception_code), ", address 0x">>
         \o Hex04(address)

Whats == {"Cannot read status", "Cannot power on compressor"}
Addresses == {REG_STATUS, REG_ERRORS, REG_POWER, REG_RESET}
Responses ==
    {ExceptionResponse(f, x) : f \in 1..MaxFunctionCode, x \in 1..MaxExceptionCode}

\* raise ModbusError(what, response, address)
raise_ModbusError(what, response, address) ==
    /\ last' = Call("ModbusError", <<what, response, address>>,
                    ModbusErrorMessage(what, response, address))
    /\ UNCHANGED <<summary_state, client, first_run, telemetry_task, nstarts,
                   pc, timerUpdate, cycles, infoReads, failedSince, inflight>>

\* a position of a field list that names no field
None == "None"

FieldNames == {"a", "b"}

\* the field lists of at most MaxFields positions
RECURSIVE FieldLists(_)
FieldLists(n) ==
    IF n = 0 THEN {<<>>}
    ELSE FieldLists(n - 1) \cup
         {Append(l, f) : l \in {x \in FieldLists(n - 1) : Len(x) = n - 1},
                         f \in FieldNames \cup {None}}

\* ret[f] = v
SetItem(ret, f, v) ==
    [k \in DOMAIN ret \cup {f} |-> IF k = f THEN v ELSE ret[k]]

\* the loop of _statusBits with a fault: a None position does not shift
RECURSIVE StatusBitsLoop_NoShift(_, _, _)
StatusBitsLoop_NoShift(fields, value, ret) ==
    IF fields = <<>> THEN ret
    ELSE IF Head(fields) # None
         THEN StatusBitsLoop_NoShift(Tail(fields), value \div 2,
                                     SetItem(ret, Head(fields), value % 2))
         ELSE StatusBitsLoop_NoShift(Tail(fields), value, ret)

\* for f in fields: if f is not None: ret[f] = value & 0x0001; value >>= 1
RECURSIVE StatusBitsLoop(_, _, _)
StatusBitsLoop(fields, value, ret) ==
    IF fields = <<>> THEN ret
    ELSE StatusBitsLoop(Tail(fields), value \div 2,
                        IF Head(fields) # None
                        THEN SetItem(ret, Head(fields), value % 2)
                        ELSE ret)

\* _statusBits(fields, value)
_statusBits(fields, value) == StatusBitsLoop(fields, value, <<>>)

\* one call of _statusBits, as update_errorsWarnings makes them
call_statusBits(fields, value) ==
    /\ last' = Call("_statusBits", <<fields, value>>, _statusBits(fields, value))
    /\ UNCHANGED <<summary_state, client, first_run, telemetry_task, nstarts,
                   pc, timerUpdate, cycles, infoReads, failedSince, inflight>>

\* registers[k], counted from 0
Item(registers, k) == registers[k + 1]

\* a published number as <<numerator, denominator>>: an int register value
\* published as it is, and the float x / 10.0
Whole(x) == <<x, 1>>
DivideBy10(x) == <<x, 10>>

\* the keyword arguments of tel_analogData.set_write with a fault:
\* stage1OutputTemperature scaled too
AnalogData_TemperatureScaled(analog1, analog2) ==
    [waterLevel |-> Whole(Item(analog1, 0)),
     targetSpeed |-> Whole(Item(analog2, 0)),
     motorCurrent |-> DivideBy10(Item(analog2, 1)),
     heatsinkTemperature |-> Whole(Item(analog2, 2)),
     dclinkVoltage |-> Whole(Item(analog2, 3)),
     motorSpeedPercentage |-> Whole(Item(analog2, 4)),
     motorSpeedRPM |-> Whole(Item(analog2, 5)),
     motorInput |-> DivideBy10(Item(analog2, 6)),
     compressorPowerConsumption |-> DivideBy10(Item(analog2, 7)),
     compressorVolumePercentage |-> Whole(Item(analog2, 8)),
     compressorVolume |-> DivideBy10(Item(analog2, 9)),
     groupVolume |-> DivideBy10(Item(analog2, 10)),
     stage1OutputPressure |-> Whole(Item(analog2, 11)),
     linePressure |-> Whole(Item(analog2, 12)),
     stage1OutputTemperature |-> DivideBy10(Item(analog2, 13))]

\* the keyword arguments of tel_analogData.set_write
AnalogData(analog1, analog2) ==
    [waterLevel |-> Whole(Item(analog1, 0)),
     targetSpeed |-> Whole(Item(analog2, 0)),
     motorCurrent |-> DivideBy10(Item(analog2, 1)),
     heatsinkTemperature |-> Whole(Item(analog2, 2)),
     dclinkVoltage |-> Whole(Item(analog2, 3)),
     motorSpeedPercentage |-> Whole(Item(analog2, 4)),
     motorSpeedRPM |-> Whole(Item(analog2, 5)),
     motorInput |-> DivideBy10(Item(analog2, 6)),
     compressorPowerConsumption |-> DivideBy10(Item(analog2, 7)),
     compressorVolumePercentage |-> Whole(Item(analog2, 8)),
     compressorVolume |-> DivideBy10(Item(analog2, 9)),
     groupVolume |-> DivideBy10(Item(analog2, 10)),
     stage1OutputPressure |-> Whole(Item(analog2, 11)),
     linePressure |-> Whole(Item(analog2, 12)),
     stage1OutputTemperature |-> Whole(Item(analog2, 13))]

\* the 14 registers read at 0x22: value b everywhere but value a at index k
Analog2Registers ==
    {[i \in 1..14 |-> IF i = k + 1 THEN a ELSE b] :
        k \in 0..13, a \in 0..MaxRegister, b \in 0..MaxRegister}

\* the publication of update_analog_data after two successful reads
publish_analogData(analog1, analog2) ==
    /\ last' = Call("tel_analogData", <<analog1, analog2>>,
                    AnalogData(analog1, analog2))
    /\ UNCHANGED <<summary_state, client, first_run, telemetry_task, nstarts,
                   pc, timerUpdate, cycles, infoReads, failedSince, inflight>>

InitData == Init /\ summary_state = "STANDBY"

NextData ==
    \/ \E what \in Whats, response \in Responses, address \in Addresses :
          raise_ModbusError(what, response, address)
    \/ \E fields \in FieldLists(MaxFields), value \in 0..(2 ^ (MaxFields + 1) - 1) :
          call_statusBits(fields, value)
    \/ \E r \in 0..MaxRegister, analog2 \in Analog2Registers :
          publish_analogData(<<r>>, analog2)

SpecData == InitData /\ [][NextData]_vars

\* C15: the message of a ModbusError is "Cannot write register address 0x.."
\* for a response of function code 6, "Cannot address 0x.." for one of
\* function code 4 and "Cannot call function .." for every other code, each
\* after what + " " and with the address as four hex digits; for the same
\* what, address and exception code the three messages differ from each other.
C15_MessageByFunctionCode ==
    last.op = "ModbusError" =>
        LET what == last.args[1]
            response == last.args[2]
            address == last.args[3]
            code == response.original_code
            message == last.result
            other == CHOOSE c \in 1..MaxFunctionCode : c \notin {4, 6}
            MessageOf(c) ==
                ModbusErrorMessage(what,
                    ExceptionResponse(c, response.exception_code), address)
        IN  /\ message[1] = what /\ message[2] = " "
            /\ code = 6 =>
                  /\ message[3] = "Cannot write register address 0x"
                  /\ SubSeq(message, 4, 7) = Hex04(address)
            /\ code = 4 =>
                  /\ message[3] = "Cannot address 0x"
                  /\ SubSeq(message, 4, 7) = Hex04(address)
            /\ code \notin {4, 6} =>
                  /\ message[3] = "Cannot call function "
                  /\ SubSeq(message, Len(message) - 3, Len(message))
                        = Hex04(address)
            /\ MessageOf(4) # MessageOf(6)
            /\ MessageOf(4) # MessageOf(other)
            /\ MessageOf(6) # MessageOf(other)

\* C15 witness: a function-code-6 response for the write to 0x12B
C15_Witness ==
    /\ last.op = "ModbusError"
    /\ last.args[2].original_code = 6
    /\ last.args[3] = REG_POWER
    /\ last.result[3] = "Cannot write register address 0x"
    /\ SubSeq(last.result, 4, 7) = <<"0", "1", "2", "b">>

\* bit i of v, (v >> i) & 1
Bit(v, i) == (v \div (2 ^ i)) % 2

\* the names of a field list
Present(fields) == {fields[i] : i \in 1..Len(fields)} \ {None}

\* no name is at two positions of the list
DistinctNames(fields) ==
    \A i, j \in 1..Len(fields) :
        (fields[i] # None /\ fields[i] = fields[j]) => i = j

\* C16 as stated, for every field list: each name at position i (from 0) is
\* mapped to bit i of the value, a None position uses up its bit and is no
\* key, and the keys are exactly the names of the list.
C16_DecodesEveryList ==
    last.op = "_statusBits" =>
        LET fields == last.args[1]
            value == last.args[2]
            ret == last.result
        IN  /\ DOMAIN ret = Present(fields)
            /\ \A i \in 1..Len(fields) :
                  fields[i] # None => ret[fields[i]] = Bit(value, i - 1)

\* C16 amended: the same for every field list whose names are distinct (as
\* they are in every list update_errorsWarnings and update_status pass); a
\* name given at two positions gets the bit of the later position.
C16_DecodesDistinctNames ==
    last.op = "_statusBits" =>
        LET fields == last.args[1]
            value == last.args[2]
            ret == last.result
        IN  /\ DOMAIN ret = Present(fields)
            /\ DistinctNames(fields) =>
                  \A i \in 1..Len(fields) :
                      fields[i] # None => ret[fields[i]] = Bit(value, i - 1)
            /\ \A i \in 1..Len(fields) :
                  (fields[i] # None /\ \A j \in (i + 1)..Len(fields) :
                                           fields[j] # fields[i])
                      => ret[fields[i]] = Bit(value, i - 1)

\* C16 witness: a name after a None position, decoded from bit 1
C16_Witness ==
    /\ last.op = "_statusBits"
    /\ last.args[1] = <<None, "a">>
    /\ last.args[2] = 2
    /\ DOMAIN last.result = {"a"}
    /\ last.result["a"] = 1

\* the register value a field of the analog record is taken from
AnalogRegister(field, analog1, analog2) ==
    CASE field = "waterLevel" -> analog1[1]
      [] field = "targetSpeed" -> analog2[1]
      [] field = "motorCurrent" -> analog2[2]
      [] field = "heatsinkTemperature" -> analog2[3]
      [] field = "dclinkVoltage" -> analog2[4]
      [] field = "motorSpeedPercentage" -> analog2[5]
      [] field = "motorSpeedRPM" -> analog2[6]
      [] field = "motorInput" -> analog2[7]
      [] field = "compressorPowerConsumption" -> analog2[8]
      [] field = "compressorVolumePercentage" -> analog2[9]
      [] field = "compressorVolume" -> analog2[10]
      [] field = "groupVolume" -> analog2[11]
      [] field = "stage1OutputPressure" -> analog2[12]
      [] field = "linePressure" -> analog2[13]
      [] field = "stage1OutputTemperature" -> analog2[14]

\* the published record divides exactly the fields of scaled by 10 and
\* carries every other field as the register value
ScaledExactly(scaled) ==
    \A field \in DOMAIN last.result :
        LET x == AnalogRegister(field, last.args[1], last.args[2])
        IN  last.result[field] = IF field \in scaled THEN <<x, 10>> ELSE <<x, 1>>

\* C17 as stated: the fields divided by 10 are exactly motor current, motor
\* input, power consumption, compressor volume % (read as either of the two
\* compressor volume fields), group volume and stage-1 output temperature;
\* every other field is the raw register value.
C17_ScaledFieldsAsStated ==
    last.op = "tel_analogData" =>
        \E volume \in {"compressorVolumePercentage", "compressorVolume"} :
            ScaledExactly({"motorCurrent", "motorInput",
                           "compressorPowerConsumption", volume, "groupVolume",
                           "stage1OutputTemperature"})

\* C17 amended: the fields divided by 10 are exactly motor current, motor
\* input, power consumption, compressor volume and group volume; every other
\* field, compressor volume percentage and stage-1 output temperature among
\* them, is the raw register value; the record has the 15 analog fields.
C17_ScaledFields ==
    last.op = "tel_analogData" =>
        /\ Cardinality(DOMAIN last.result) = 15
        /\ ScaledExactly({"motorCurrent", "motorInput",
                          "compressorPowerConsumption", "compressorVolume",
                          "groupVolume"})

\* C17 witness: a record with a scaled motor current and a raw stage-1
\* output temperature from registers of different values
C17_Witness ==
    /\ last.op = "tel_analogData"
    /\ last.args[2][2] = 2
    /\ last.args[2][14] = 1
    /\ last.result.motorCurrent = <<2, 10>>
    /\ last.result.stage1OutputTemperature = <<1, 1>>

\* C19: whenever the power command acknowledged last is the power-on of
\* end_enable (the state is ENABLED), a poll task is running, also for an
\* enable that follows a disable of the same session.
C19_PoweredOnHasPollTask ==
    summary_state = "ENABLED" => LiveTasks # {}

\* C20: a power command (end_enable, end_disable) runs only with a client:
\* it makes its write, and unless the transport call itself raised it ends
\* acknowledged or in a ModbusError.
C20_PowerCommandHasClient ==
    last.op \in {"end_enable", "end_disable"} =>
        /\ client # "None"
        /\ Len(last.writes) = 1
        /\ last.results # <<"raise">> => last.err.kind \in {"none", "ModbusError"}

====
